---- MODULE Spec2Model ----
(***************************************************************************)
(* Model of pkg/scheduler (srcnDev/message-service): the interval          *)
(* scheduler's Start / Stop / IsRunning under its mutex, the execution     *)
(* loop goroutines launched by Start, the ticker, the job context and the  *)
(* completion channel.                                                     *)
(*                                                                         *)
(* Every successful Start creates one incarnation: a job context, a        *)
(* completion channel, a ticker and a loop goroutine.  Incarnations are    *)
(* numbered by recency: number 1 (Cur) is the one the scheduler's fields   *)
(* s.cancel, s.stoppedCh and s.ticker point at, higher numbers are older   *)
(* ones that a goroutine still refers to.                                  *)
(***************************************************************************)
EXTENDS Integers, FiniteSets, Sequences, TLC

\* ------------------------------------------------------------------ bounds
MaxLoops   == 2      \* incarnations that are referenced at the same time
MaxTicks   == 2      \* ticks the loops that are alive have consumed, in total

Epochs  == 1..MaxLoops
Nil     == 0
Cur     == 1

VARIABLES
    running,        \* scheduler.running
    mu,             \* scheduler.mu: "free", or "Stop" while a Stop call holds
                    \* it waiting in its select
    cctxDone,       \* ctx.Done() of the context passed to that Stop call
    startCtxDone,   \* ctx.Done() of the context passed to the last successful
                    \* Start, followed while the scheduler is running
    ep,             \* the incarnations, see Blank for the fields
    panicked,       \* the process died of an unrecovered panic
    ev,             \* what the last step reported: the result an API call
                    \* returned, or the fault executeJob logged (NoEv for
                    \* any other step)
    startOKs,       \* successful Starts since the last successful Stop
    stopOKs         \* successful Stops since the last successful Start

\* ------------------------------------------- state of the other components
\* Each component below has a specification of its own; the scheduler's
\* steps leave its state alone.
VARIABLES
    nw,             \* one call of scheduler.New: its arguments and its results
    store,          \* the messages table: for each id its row
    cy,             \* the dispatcher: where SendPendingMessages is, its locals,
                    \* and what its last cycle saw and returned
    hist,           \* for each message, how often the transport accepted it
    cacheOn,        \* s.cacheEnabled && s.cacheRepo != nil
    batchArg,       \* the batchSize argument NewMessageSenderService was given
    batchSize,      \* s.batchSize
    shut            \* where Container.Close is

NoNew == [interval |-> 1, job |-> "fn", sched |-> "none", err |-> "none"]

MaxMsgs    == 3      \* messages that are ever created
MaxDeliver == 2      \* transport calls that succeed, in total
MaxBatchArg == 2     \* largest batchSize argument of the constructor

Msgs == 1..MaxMsgs

\* The batch size NewMessageSenderService takes when it is given none
BatchSize == 2

\* the batchSize arguments the service is constructed with
BatchArgs == -1..MaxBatchArg

\* the external id of the k-th accepted delivery of message m
NoId == [of |-> 0, n |-> 0]
ExtId(m, k) == [of |-> m, n |-> k]

\* a row that does not exist (yet)
NoRow == [status |-> "none", messageID |-> NoId, sentAt |-> FALSE]

\* SendPendingMessages not running and never run
Idle ==
    [ pc    |-> "idle",     \* idle, send, persist, cache
      list  |-> "none",     \* what GetPendingMessages answered: ok, err
      batch |-> << >>,      \* messages: ids of the rows the fetch returned
      i     |-> 0,          \* index of the item of the range loop
      nerr  |-> 0,          \* len(sendErrors)
      resp  |-> NoId,       \* resp.MessageID of the item's transport call
      ret   |-> "none",     \* what the last cycle returned
      facts |-> << >> ]     \* per item of the last cycle, what the transport,
                            \* the store and the cache answered

dvars == <<store, cy, hist, cacheOn, batchArg, batchSize>>

nonSched == <<nw, dvars, shut>>

NewIdle == nw = NoNew

DispatcherIdle ==
    /\ store = [m \in Msgs |-> NoRow]
    /\ cy = Idle
    /\ hist = [m \in Msgs |-> 0]
    /\ cacheOn = FALSE
    /\ batchArg = 0
    /\ batchSize = BatchSize

OthersIdle == NewIdle /\ DispatcherIdle

svars == <<running, mu, cctxDone, startCtxDone, ep, panicked, ev, startOKs, stopOKs>>

vars == <<svars, nonSched>>

NoEv == [op |-> "none", res |-> "none"]
Ev(o, r) == [op |-> o, res |-> r]

Min2(a, b) == IF a < b THEN a ELSE b

\* an incarnation nobody has created (or nobody refers to any more)
Blank ==
    [ pc        |-> "none",        \* loop goroutine: none, launched, job, select
      cancelled |-> FALSE,         \* jobCtx cancelled through its cancel func
      parent    |-> "Background",  \* parent of jobCtx
      deferCh   |-> Nil,           \* channel bound by `defer close(s.stoppedCh)`
      tk        |-> Nil,           \* ticker the loop's current select reads
      inv       |-> 0,             \* job invocations the loop has made
      ticks     |-> 0,             \* ticks the loop has consumed
      closed    |-> 0,             \* close() calls made on the completion channel
      tkActive  |-> FALSE,         \* ticker created and not stopped
      tkPending |-> FALSE,         \* ticker channel holds a tick
      watched   |-> FALSE ]        \* the loop an observer follows to its exit

AliveR(r) == r.pc \in {"launched", "job", "select"}
Alive(e)  == AliveR(ep[e])

\* --------------------------------------------------- code-level decisions
\* Start: `if s.running { return ErrAlreadyRunning }`
StartRejectsNever == FALSE
StartRejects == running

\* Stop: `if !s.running { return ErrNotRunning }`
StopRejectsNever == FALSE
StopRejects == ~running

\* Start: `jobCtx, cancel := context.WithCancel(context.Background())`
JobCtxParentCaller == "caller"
JobCtxParent == "Background"

\* Stop: `case <-ctx.Done(): return ctx.Err()` returns before `s.running = false`
StopCtxDoneRunningCleared == FALSE
StopCtxDoneRunning == running

\* Stop: `case <-s.stoppedCh:` then `s.running = false`
StopDoneRunningKept == TRUE
StopDoneRunning == FALSE

\* Stop: `case <-time.After(5 * time.Second):` is one of the select's cases
TimeoutNever == FALSE
TimeoutArmed == TRUE

\* run: `case <-s.ticker.C:` receives the tick the channel holds, which
\* leaves the channel empty
TickKept == TRUE
TickLeft == FALSE

\* run: `s.executeJob(ctx)` precedes the for/select
EntrySkipsJob == FALSE
EntryInvokesJob == TRUE

\* executeJob: the deferred recover() swallows a panic of the job
RecoversNothing(out) == out # "panic"
Recovers(out) == TRUE

\* what one call of s.job(ctx) can do when it ends: return nil, return an
\* error, panic.  (It may also never end: JobReturn is never forced.)
JobOutcomes == {"ok", "err", "panic"}

\* what Start creates
Fresh ==
    [ Blank EXCEPT !.pc = "launched", !.parent = JobCtxParent, !.tkActive = TRUE ]

\* ctx.Done() of a loop's job context: its own cancel func, or its parent.
\* Only the loop of the last Start can still be uncancelled (a Start follows a
\* Stop that called s.cancel), so one flag for that Start's context suffices.
Done(e) ==
    ep[e].cancelled \/ (ep[e].parent = "caller" /\ e = Cur /\ startCtxDone)

\* run: `case <-ctx.Done(): return` is one of the select's cases
ExitNever(e) == FALSE
ExitReady(e) == Done(e)

\* ------------------------------------------- numbering of incarnations
TickerLive(f, e) == f[e].tkActive \/ f[e].tkPending

\* the incarnations of f that a goroutine or a live ticker still needs
Refd(f) ==
    { e \in Epochs :
        \/ AliveR(f[e])
        \/ f[e].tkActive
        \/ \E l \in Epochs : /\ AliveR(f[l])
                             /\ \/ f[l].deferCh = e
                                \/ f[l].tk = e /\ TickerLive(f, e) }

Rank(S, e) == Cardinality({k \in S : k <= e})

\* a reference to a stopped and drained ticker becomes Nil: it never ticks
Ren(f, S, off, r) ==
    [ r EXCEPT !.deferCh = IF @ = Nil THEN Nil ELSE Rank(S, @) + off,
               !.tk = IF @ = Nil THEN Nil
                      ELSE IF TickerLive(f, @) THEN Rank(S, @) + off ELSE Nil ]

\* f with the incarnations of S renumbered off+1, off+2, ... in their order,
\* and all others forgotten
Pack(f, S, off) ==
    [ i \in Epochs |->
        IF \E e \in S : Rank(S, e) + off = i
        THEN Ren(f, S, off, f[CHOOSE e \in S : Rank(S, e) + off = i])
        ELSE Blank ]

\* --------------------------------------------------------------------- Init
SchedInit ==
    /\ running = FALSE
    /\ mu = "free"
    /\ cctxDone = FALSE
    /\ startCtxDone = FALSE
    /\ ep = [e \in Epochs |-> Blank]
    /\ panicked = FALSE
    /\ ev = NoEv
    /\ startOKs = 0
    /\ stopOKs = 0
    /\ shut = "open"

Init == SchedInit /\ OthersIdle

\* ------------------------------------------------------------------ callers
\* Any number of goroutines call the API.  Every call begins with
\* s.mu.Lock() and releases the mutex when it returns, so one call at a time
\* is inside; the others wait at Lock and change nothing.  A call that does
\* not wait inside its critical section is one step, taken when the mutex is
\* free; Stop keeps the mutex while it waits in its select.

\* scheduler.Start, the whole critical section
Start ==
    /\ ~panicked
    /\ UNCHANGED nonSched
    /\ mu = "free"
    /\ IF StartRejects
       THEN /\ ev' = Ev("Start", "AlreadyRunning")
            /\ UNCHANGED <<running, startCtxDone, ep, startOKs, stopOKs>>
       ELSE /\ Cardinality(Refd(ep)) < MaxLoops
            /\ ep' = [Pack(ep, Refd(ep), 1) EXCEPT ![Cur] = Fresh]
            /\ running' = TRUE
            /\ startCtxDone' = FALSE
            /\ ev' = Ev("Start", "nil")
            /\ startOKs' = Min2(startOKs + 1, 2)
            /\ stopOKs' = 0
    /\ UNCHANGED <<mu, cctxDone, panicked>>

\* the context that was passed to Start is cancelled.  Start never reads its
\* ctx, so a context cancelled before Start returned is the case of this step
\* being the first one after Start
CancelStartCtx ==
    /\ ~panicked
    /\ UNCHANGED nonSched
    /\ running
    /\ ~startCtxDone
    /\ startCtxDone' = TRUE
    /\ ev' = NoEv
    /\ UNCHANGED <<running, mu, cctxDone, ep, panicked, startOKs, stopOKs>>

\* scheduler.Stop up to its select: lock, check, s.cancel(), s.ticker.Stop()
\* (a stopped ticker delivers no tick it had prepared before the call)
StopCall ==
    /\ mu = "free"
    /\ IF StopRejects
       THEN /\ ev' = Ev("Stop", "NotRunning")
            /\ UNCHANGED <<mu, ep>>
       ELSE /\ mu' = "Stop"
            /\ ep' = [ep EXCEPT ![Cur].cancelled = AliveR(ep[Cur]),
                                ![Cur].tkActive = FALSE,
                                ![Cur].tkPending = FALSE]
            /\ ev' = NoEv
    /\ UNCHANGED <<running, cctxDone, startCtxDone, panicked, startOKs, stopOKs>>

StopBegin ==
    /\ ~panicked
    /\ UNCHANGED nonSched
    /\ StopCall

\* the context passed to a Stop call is cancelled.  Stop reads ctx only in
\* its select, so a context cancelled earlier (before the call, or while the
\* caller waited for the mutex) is the case of this step being the first one
\* after StopBegin
CancelCallCtx ==
    /\ ~panicked
    /\ UNCHANGED nonSched
    /\ mu = "Stop"
    /\ ~cctxDone
    /\ cctxDone' = TRUE
    /\ ev' = NoEv
    /\ UNCHANGED <<running, mu, startCtxDone, ep, panicked, startOKs, stopOKs>>

\* Stop's select, `case <-s.stoppedCh:` then s.running = false; return nil
StopDone ==
    /\ ~panicked
    /\ UNCHANGED nonSched
    /\ mu = "Stop"
    /\ ep[Cur].closed >= 1
    /\ running' = StopDoneRunning
    /\ mu' = "free"
    /\ cctxDone' = FALSE
    /\ ev' = Ev("Stop", "nil")
    /\ stopOKs' = Min2(stopOKs + 1, 2)
    /\ startOKs' = 0
    /\ startCtxDone' = FALSE
    /\ UNCHANGED <<ep, panicked>>

\* Stop's select, `case <-ctx.Done(): return ctx.Err()`
StopCtxDone ==
    /\ ~panicked
    /\ UNCHANGED nonSched
    /\ mu = "Stop"
    /\ cctxDone
    /\ running' = StopCtxDoneRunning
    /\ mu' = "free"
    /\ cctxDone' = FALSE
    /\ ev' = Ev("Stop", "ctxErr")
    /\ UNCHANGED <<startCtxDone, ep, panicked, startOKs, stopOKs>>

\* Stop's select, `case <-time.After(5 * time.Second):` then s.running = false
StopTimeout ==
    /\ ~panicked
    /\ UNCHANGED nonSched
    /\ mu = "Stop"
    /\ TimeoutArmed
    /\ running' = FALSE
    /\ mu' = "free"
    /\ cctxDone' = FALSE
    /\ ev' = Ev("Stop", "nil")
    /\ stopOKs' = Min2(stopOKs + 1, 2)
    /\ startOKs' = 0
    /\ startCtxDone' = FALSE
    /\ UNCHANGED <<ep, panicked>>

\* scheduler.IsRunning: returns s.running once the mutex is free
IsRunning ==
    /\ ~panicked
    /\ UNCHANGED nonSched
    /\ mu = "free"
    /\ ev' = Ev("IsRunning", IF running THEN "true" ELSE "false")
    /\ UNCHANGED <<running, mu, cctxDone, startCtxDone, ep, panicked,
                   startOKs, stopOKs>>

\* ------------------------------------------------------- execution loop
\* run's entry: `defer close(s.stoppedCh)` binds the channel the scheduler
\* holds now, then the first executeJob
RunEnter(e) ==
    /\ ~panicked
    /\ UNCHANGED nonSched
    /\ ep[e].pc = "launched"
    /\ IF EntryInvokesJob
       THEN /\ ep' = [ep EXCEPT ![e].deferCh = Cur, ![e].pc = "job", ![e].inv = @ + 1]
            /\ ev' = NoEv
       ELSE /\ ep' = [ep EXCEPT ![e].deferCh = Cur, ![e].pc = "select", ![e].tk = Cur]
            /\ ev' = NoEv
    /\ UNCHANGED <<running, mu, cctxDone, startCtxDone, panicked, startOKs, stopOKs>>

\* executeJob returns: the job returned nil, returned an error (logged) or
\* panicked (recovered and logged); the loop then enters its select, which
\* reads s.ticker
JobReturn(e, out) ==
    /\ ~panicked
    /\ UNCHANGED nonSched
    /\ ep[e].pc = "job"
    /\ ev' = IF out = "ok" THEN NoEv ELSE Ev("JobFault", out)
    /\ IF Recovers(out)
       THEN /\ ep' = [ep EXCEPT ![e].pc = "select", ![e].tk = Cur]
            /\ UNCHANGED panicked
       ELSE /\ panicked' = TRUE
            /\ UNCHANGED ep
    /\ UNCHANGED <<running, mu, cctxDone, startCtxDone, startOKs, stopOKs>>

RECURSIVE TotalTicks(_, _)
TotalTicks(f, n) == IF n = 0 THEN 0 ELSE f[n].ticks + TotalTicks(f, n - 1)

\* run's select, `case <-s.ticker.C:` then executeJob
LoopTick(e) ==
    /\ ~panicked
    /\ UNCHANGED nonSched
    /\ ep[e].pc = "select"
    /\ ep[e].tk # Nil
    /\ ep[ep[e].tk].tkPending
    /\ TotalTicks(ep, MaxLoops) < MaxTicks
    /\ ep' = [ep EXCEPT ![ep[e].tk].tkPending = TickLeft,
                        ![e].pc = "job",
                        ![e].ticks = @ + 1,
                        ![e].inv = @ + 1]
    /\ ev' = NoEv
    /\ UNCHANGED <<running, mu, cctxDone, startCtxDone, panicked, startOKs, stopOKs>>

\* run's select, `case <-ctx.Done(): return`, then the deferred close; a
\* second close of a channel panics
LoopCancel(e) ==
    /\ ~panicked
    /\ UNCHANGED nonSched
    /\ ep[e].pc = "select"
    /\ ExitReady(e)
    /\ LET ch == ep[e].deferCh
           f1 == [ep EXCEPT ![ch].closed = Min2(@ + 1, 2)]
           f2 == [f1 EXCEPT ![e].pc = "none", ![e].cancelled = FALSE,
                            ![e].watched = FALSE,
                            ![e].parent = "Background", ![e].deferCh = Nil,
                            ![e].tk = Nil, ![e].inv = 0, ![e].ticks = 0]
       IN /\ ep' = Pack(f2, {Cur} \cup Refd(f2), 0)
          /\ panicked' = (ep[ch].closed >= 1)
    /\ ev' = NoEv
    /\ UNCHANGED <<running, mu, cctxDone, startCtxDone, startOKs, stopOKs>>

\* the runtime fires a ticker; a tick nobody has received yet is kept, a
\* further one is dropped
Tick(e) ==
    /\ ~panicked
    /\ UNCHANGED nonSched
    /\ ep[e].tkActive
    /\ ~ep[e].tkPending
    /\ ep' = [ep EXCEPT ![e].tkPending = TRUE]
    /\ ev' = NoEv
    /\ UNCHANGED <<running, mu, cctxDone, startCtxDone, panicked, startOKs, stopOKs>>

Next ==
    \/ Start
    \/ CancelStartCtx
    \/ StopBegin
    \/ CancelCallCtx
    \/ StopDone
    \/ StopCtxDone
    \/ StopTimeout
    \/ IsRunning
    \/ \E e \in Epochs : RunEnter(e)
    \/ \E e \in Epochs, out \in JobOutcomes : JobReturn(e, out)
    \/ \E e \in Epochs : LoopTick(e)
    \/ \E e \in Epochs : LoopCancel(e)
    \/ \E e \in Epochs : Tick(e)

Spec == Init /\ [][Next]_vars

\* a waiting Stop's select takes a case that is ready, and its 5-second timer
\* becomes ready whatever the loop does
FairSpec ==
    /\ Init
    /\ [][Next]_vars
    /\ WF_vars(StopDone \/ StopCtxDone \/ StopTimeout)

\* loops that are alive with their context done
Cancelled == {e \in Epochs : Alive(e) /\ Done(e)}
Watched   == {e \in Epochs : ep[e].watched}

\* an observer picks the loop whose context the Stop under way has
\* cancelled, to follow it (loops have no name of their own: Start and the
\* exit of a loop renumber them)
Watch ==
    /\ ~panicked
    /\ UNCHANGED nonSched
    /\ mu = "Stop"
    /\ Cur \in Cancelled
    /\ Watched = {}
    /\ ep' = [ep EXCEPT ![Cur].watched = TRUE]
    /\ UNCHANGED <<running, mu, cctxDone, startCtxDone, panicked, ev,
                   startOKs, stopOKs>>

WNext == Next \/ Watch

\* the goroutine of the loop that is followed is scheduled, its invocation
\* in flight returns, and its select, whose ctx.Done() case is ready again
\* and again, takes that case (Go picks among the ready cases at random)
WatchSpec ==
    /\ Init
    /\ [][WNext]_vars
    /\ WF_vars(\E e \in Watched : RunEnter(e))
    /\ WF_vars(\E e \in Watched, out \in JobOutcomes : JobReturn(e, out))
    /\ SF_vars(\E e \in Watched : LoopCancel(e))

\* ---------------------------------------------------------- Container.Close
\* Close: `c.MessageSenderJob.IsRunning()` (job.IsRunning is
\* scheduler.IsRunning); when it says no, Stop is not called
CloseCheck ==
    /\ ~panicked
    /\ shut = "open"
    /\ mu = "free"
    /\ shut' = IF running THEN "stop" ELSE "conns"
    /\ UNCHANGED <<svars, nw, dvars>>

\* Close: `c.MessageSenderJob.Stop(ctx)` up to Stop's select (job.Stop is
\* scheduler.Stop); an error of Stop is only logged
CloseStop ==
    /\ ~panicked
    /\ shut = "stop"
    /\ StopCall
    /\ shut' = IF StopRejects THEN "conns" ELSE "wait"
    /\ UNCHANGED <<nw, dvars>>

\* Close after its Stop returned (or was not called): c.RedisClient.Close()
\* and sqlDB.Close()
CloseConns ==
    /\ ~panicked
    /\ \/ shut = "conns"
       \/ shut = "wait" /\ mu = "free"
    /\ shut' = "closed"
    /\ UNCHANGED <<svars, nw, dvars>>

\* what goes on without a caller: the select of a Stop under way (Close
\* passes context.Background(), which is never done), the loops, the tickers
Background ==
    \/ StopDone
    \/ StopTimeout
    \/ \E e \in Epochs : RunEnter(e)
    \/ \E e \in Epochs, out \in JobOutcomes : JobReturn(e, out)
    \/ \E e \in Epochs : LoopTick(e)
    \/ \E e \in Epochs : LoopCancel(e)
    \/ \E e \in Epochs : Tick(e)

\* the scheduler with Container.Close.  App.Shutdown calls Close after
\* a.server.Shutdown returned nil, that is when no request handler is left
\* to call Start or Stop
CNext ==
    \/ shut = "open" /\ Next
    \/ shut # "open" /\ Background
    \/ CloseCheck
    \/ CloseStop
    \/ CloseConns

CSpec == Init /\ [][CNext]_vars

TypeOK ==
    /\ running \in BOOLEAN
    /\ mu \in {"free", "Stop"}
    /\ cctxDone \in BOOLEAN
    /\ \A e \in Epochs : /\ ep[e].pc \in {"none", "launched", "job", "select"}
                         /\ ep[e].closed \in 0..2
                         /\ ep[e].deferCh \in Epochs \cup {Nil}
                         /\ ep[e].tk \in Epochs \cup {Nil}
                         /\ ep[e].ticks \in 0..MaxTicks
    /\ startOKs \in 0..2 /\ stopOKs \in 0..2

\* ------------------------------------------------------------ observations
InJob    == {e \in Epochs : ep[e].pc = "job"}
InSelect == {e \in Epochs : ep[e].pc = "select"}
AliveSet == {e \in Epochs : Alive(e)}

RECURSIVE SumInv(_, _)
SumInv(f, n) == IF n = 0 THEN 0 ELSE f[n].inv + SumInv(f, n - 1)
\* invocations made by the loops that are alive; it grows exactly when a loop
\* invokes the job (an exiting loop only takes its count away)
TotalInv(f) == SumInv(f, MaxLoops)

\* ------------------------------------------------------------------ claims

\* C1: at any moment at most one execution loop is alive and at most one
\* invocation of the work function is executing, across any sequence of
\* Start and Stop calls (a Stop that ended by its timeout included).
C1_OneLoopOneInvocation ==
    /\ Cardinality(AliveSet) <= 1
    /\ Cardinality(InJob) <= 1

\* C2: whenever a Stop call on a running scheduler returns, by completion,
\* by its context being cancelled or by the timeout, the running flag is
\* false.
C2_StopLeavesNotRunning ==
    (ev.op = "Stop" /\ ev.res \in {"nil", "ctxErr"}) => ~running

\* C3: from a Stop that returned nil until the next successful Start, no
\* invocation of the work function begins.
C3_NoInvocationAfterStop ==
    [][(stopOKs >= 1 /\ stopOKs' >= 1) => TotalInv(ep') <= TotalInv(ep)]_vars

\* C4: Start on a running scheduler returns AlreadyRunning and Stop on a
\* stopped one returns NotRunning, and such a call changes nothing: not the
\* running flag, not the ticker, the cancel handle or the completion channel,
\* and it launches or cancels no loop.
C4_RejectedCallsChangeNothing ==
    [][ /\ (ev'.op = "Start" /\ running) =>
              /\ ev'.res = "AlreadyRunning"
              /\ UNCHANGED <<running, mu, ep, startCtxDone, panicked>>
        /\ (ev'.op = "Stop" /\ ~running) =>
              /\ ev'.res = "NotRunning"
              /\ UNCHANGED <<running, mu, ep, startCtxDone, panicked>> ]_vars

C4_Witness ==
    /\ ev = Ev("Start", "AlreadyRunning")
    /\ running
    /\ ep[Cur].pc = "job"

\* C5: between two successful Stops there is a successful Start and between
\* two successful Starts a successful Stop, so of the callers that race on a
\* stopped (running) scheduler one Start (at most one Stop) succeeds; a Start
\* that fails got AlreadyRunning after another one succeeded, and a Stop that
\* fails got NotRunning or its context's error.
C5_OneStartOneStopSucceeds ==
    /\ startOKs <= 1
    /\ stopOKs <= 1
    /\ (ev.op = "Start" /\ ev.res # "nil") => (ev.res = "AlreadyRunning" /\ startOKs = 1)
    /\ (ev.op = "Stop" /\ ev.res # "nil") => ev.res \in {"NotRunning", "ctxErr"}
    /\ (ev = Ev("Stop", "NotRunning")) => startOKs = 0

C5_Witness ==
    /\ ev = Ev("Stop", "NotRunning")
    /\ stopOKs = 1
    /\ mu = "free"

\* C6: the running flag is false on a new scheduler, true from a successful
\* Start until a successful Stop and false after it, and IsRunning returns
\* the flag.
C6_RunningFollowsLifecycle ==
    /\ running = (startOKs >= 1)
    /\ (startOKs = 0 /\ stopOKs = 0) => ~running
    /\ ev.op = "IsRunning" => ev.res = (IF startOKs >= 1 THEN "true" ELSE "false")

C6_Witness ==
    /\ ev = Ev("IsRunning", "false")
    /\ stopOKs = 1

\* C7: an invocation that panics or returns an error leaves its loop alive,
\* in its select, leaves the running flag alone and does not kill the
\* process; a loop ends only by the cancellation of its context.
C7_FaultKeepsLoop ==
    [][ /\ ev'.op = "JobFault" =>
              /\ Cardinality(InSelect') = Cardinality(InSelect) + 1
              /\ Cardinality(InJob') = Cardinality(InJob) - 1
              /\ running' = running
              /\ ~panicked'
        /\ Cardinality(AliveSet') < Cardinality(AliveSet) =>
              \E e \in Epochs : ep[e].pc = "select" /\ Done(e) ]_vars

C7_Witness ==
    /\ ev = Ev("JobFault", "panic")
    /\ ~panicked
    /\ running
    /\ ep[Cur].pc = "select"
    /\ ~Done(Cur)
    /\ ENABLED LoopTick(Cur)

\* C8: a loop invokes the job once on entry, before it consumes a tick, and
\* once per tick it consumes: after k ticks it has made k+1 invocations.
C8_InvocationsAreTicksPlusOne ==
    \A e \in Epochs :
        /\ ep[e].pc \in {"job", "select"} => ep[e].inv = ep[e].ticks + 1
        /\ ep[e].pc \in {"none", "launched"} => (ep[e].inv = 0 /\ ep[e].ticks = 0)

C8_Witness ==
    \E e \in Epochs :
        ep[e].pc = "select" /\ ep[e].ticks >= 2 /\ ep[e].inv = ep[e].ticks + 1

\* C9: cancelling the context that was passed to Start changes nothing of
\* the scheduler and does not cancel the loop's context: a loop's context is
\* done only once Stop has called s.cancel.
C9_StartCtxIsNotTheJobCtx ==
    /\ [](\A e \in Epochs : Done(e) => ep[e].cancelled)
    /\ [][(startCtxDone' /\ ~startCtxDone) =>
              UNCHANGED <<running, mu, ep, panicked>>]_vars

C9_Witness ==
    /\ startCtxDone
    /\ running
    /\ ep[Cur].pc = "job"
    /\ ep[Cur].ticks >= 1
    /\ ~Done(Cur)

\* C10: a Stop that waits in its select leaves it, whether or not the
\* invocation in flight ever returns (unless the whole process has died of a
\* panic meanwhile); it leaves it by the loop's completion, by its caller's
\* context (then it returns that context's error) or by the timeout.
C10_StopReturns ==
    /\ (mu = "Stop") ~> (mu = "free" \/ panicked)
    /\ [][(mu = "Stop" /\ mu' = "free") =>
            /\ ev'.op = "Stop"
            /\ ev'.res \in {"nil", "ctxErr"}
            /\ ev'.res = "ctxErr" => cctxDone
            /\ ev'.res = "nil" => (ep[Cur].closed >= 1 \/ TimeoutArmed)]_vars

C10_Witness ==
    /\ ev = Ev("Stop", "nil")
    /\ ep[Cur].pc = "job"
    /\ ep[Cur].closed = 0

\* ------------------------------------------------------------ scheduler.New
MaxInterval == 30

\* time.Duration values and the Job argument (a nil func or a function)
Intervals == -MaxInterval..MaxInterval
Jobs == {"nil", "fn"}

\* New: `if interval <= 0 { return nil, ErrInvalidInterval }`
IntervalRejectedBelowZero(interval) == interval < 0
IntervalRejected(interval) == interval <= 0

\* New: the interval is checked first, then the job
New(job, interval) ==
    IF IntervalRejected(interval)
    THEN [sched |-> "nil", err |-> "ErrInvalidInterval"]
    ELSE IF job = "nil"
         THEN [sched |-> "nil", err |-> "ErrNilJob"]
         ELSE [sched |-> "scheduler", err |-> "nil"]

NewInit ==
    /\ SchedInit
    /\ DispatcherIdle
    /\ nw \in [interval : Intervals, job : Jobs, sched : {"none"}, err : {"none"}]

NewCall ==
    /\ nw.sched = "none"
    /\ nw' = [nw EXCEPT !.sched = New(nw.job, nw.interval).sched,
                        !.err = New(nw.job, nw.interval).err]
    /\ UNCHANGED <<svars, dvars, shut>>

NewNext == NewCall

NewSpec == NewInit /\ [][NewNext]_vars

\* C11: New returns ErrInvalidInterval and no scheduler for every
\* interval <= 0 (whatever the job), ErrNilJob and no scheduler for a nil job
\* with a positive interval, and a scheduler with no error for a positive
\* interval with a job.
C11_NewValidates ==
    nw.sched # "none" =>
        /\ nw.interval <= 0 => (nw.err = "ErrInvalidInterval" /\ nw.sched = "nil")
        /\ (nw.interval > 0 /\ nw.job = "nil") => (nw.err = "ErrNilJob" /\ nw.sched = "nil")
        /\ (nw.interval > 0 /\ nw.job = "fn") => (nw.err = "nil" /\ nw.sched = "scheduler")

C11_Witness ==
    /\ nw.interval = 0
    /\ nw.job = "nil"
    /\ nw.err = "ErrInvalidInterval"

\* ------------------------------------------------ dispatcher and message store
\* NewMessageSenderService: `if batchSize <= 0 { batchSize = 2 }`
NewBatchSizeKeepsArg(arg) == arg
NewBatchSize(arg) == IF arg <= 0 THEN BatchSize ELSE arg

\* --------------------------------------------------- code-level decisions
\* repository.GetPendingMessages: `Where("status = ?", domain.StatusPending)`
FetchFilterAnyRow(row) == row.status # "none"
FetchFilter(row) == row.status = "pending"

\* SendPendingMessages: `if err != nil { return ErrMessageListFailed.WithError(err) }`
FetchErrorIgnored == FALSE
FetchErrorReturns == TRUE

\* SendPendingMessages: `len(sendErrors) > 0 && len(sendErrors) == len(messages)`
SomeFailed(ne, n) == ne > 0
AllFailed(ne, n) == ne > 0 /\ ne = n

\* sendMessage, transport error: the row is left as it is (an earlier
\* revision called SetFailed here)
TransportFailureSetsFailed == TRUE
TransportFailureWrites == FALSE

\* messageService.SetSent: `message.MessageID = &messageID`
PersistedIdDropped(resp) == NoId
PersistedId(resp) == resp

\* sendMessage: a CacheSentMessage error is logged, the function returns nil
CacheFailureFailsItem == TRUE
CacheFailureIsError == FALSE

\* sendMessage: `s.messageService.SetSent(ctx, msg.ID, resp.MessageID)` names
\* the row of the item
PersistedRowFirst(b, i) == b[1]
PersistedRow(b, i) == b[i]

\* sendMessage: `if s.cacheEnabled && s.cacheRepo != nil`
CacheGuardAlways == TRUE
CacheGuard == cacheOn

\* SendPendingMessages, range loop: after an item's error `continue`
LoopStopsAtError(failed) == ~failed
LoopContinues(failed) == TRUE

\* --------------------------------------------------------------- operators
\* repository.GetPendingMessages: the first k rows that pass the filter, in
\* the order of created_at, which is the order of the ids
RECURSIVE FirstPending(_, _, _)
FirstPending(st, m, k) ==
    IF m > MaxMsgs \/ k = 0 THEN << >>
    ELSE IF FetchFilter(st[m]) THEN <<m>> \o FirstPending(st, m + 1, k - 1)
    ELSE FirstPending(st, m + 1, k)

PendingBatch(st) == FirstPending(st, 1, batchSize)

Aggregate(ne, n) == IF AllFailed(ne, n) THEN "SendFailed" ELSE "nil"

Fact(tr, st, ca) == [tr |-> tr, st |-> st, ca |-> ca]

\* the range loop after sendMessage returned for item cy.i: an error is
\* appended to sendErrors; after the last item the cycle returns
Advance(failed, fact) ==
    LET ne == IF failed THEN cy.nerr + 1 ELSE cy.nerr
        fs == Append(cy.facts, fact)
    IN IF cy.i < Len(cy.batch) /\ LoopContinues(failed)
       THEN [cy EXCEPT !.pc = "send", !.i = @ + 1, !.nerr = ne, !.resp = NoId,
                       !.facts = fs]
       ELSE [cy EXCEPT !.pc = "idle", !.i = 0, !.nerr = ne, !.resp = NoId,
                       !.facts = fs, !.ret = Aggregate(ne, Len(cy.batch))]

Item == cy.batch[cy.i]

RECURSIVE Delivered(_, _)
Delivered(h, n) == IF n = 0 THEN 0 ELSE h[n] + Delivered(h, n - 1)

\* ------------------------------------------------------------------ actions
DInit ==
    /\ SchedInit
    /\ NewIdle
    /\ store = [m \in Msgs |-> NoRow]
    /\ cy = Idle
    /\ hist = [m \in Msgs |-> 0]
    /\ cacheOn \in BOOLEAN
    /\ batchArg \in BatchArgs
    /\ batchSize = NewBatchSize(batchArg)

\* messageService.Create: a new row, Pending, with the next id
Create ==
    /\ \E m \in Msgs :
          /\ store[m].status = "none"
          /\ \A k \in Msgs : k < m => store[k].status # "none"
          /\ store' = [store EXCEPT ![m] = [NoRow EXCEPT !.status = "pending"]]
    /\ UNCHANGED <<svars, shut, nw, cy, hist, cacheOn, batchArg, batchSize>>

\* messageService.Update with req.Status given (PUT /messages/:id; the
\* binding admits "pending" and "sent"): the status is replaced, the other
\* columns are saved as they were read
Update(m, status) ==
    /\ store[m].status # "none"
    /\ store' = [store EXCEPT ![m].status = status]
    /\ UNCHANGED <<svars, shut, nw, cy, hist, cacheOn, batchArg, batchSize>>

\* SendPendingMessages up to the range loop: the fetch, its error, the
\* empty batch
Fetch(ok) ==
    /\ cy.pc = "idle"
    /\ IF ~ok /\ FetchErrorReturns
       THEN cy' = [Idle EXCEPT !.list = "err", !.ret = "ListFailed"]
       ELSE LET b == IF ok THEN PendingBatch(store) ELSE << >>
                l == IF ok THEN "ok" ELSE "err"
            IN IF Len(b) = 0
               THEN cy' = [Idle EXCEPT !.list = l, !.ret = "nil"]
               ELSE cy' = [Idle EXCEPT !.list = l, !.pc = "send", !.batch = b,
                                       !.i = 1]
    /\ UNCHANGED <<svars, shut, nw, store, hist, cacheOn, batchArg, batchSize>>

\* sendMessage: s.webhookClient.SendMessage and its error branch
Transport(ok) ==
    /\ cy.pc = "send"
    /\ IF ok
       THEN /\ Delivered(hist, MaxMsgs) < MaxDeliver
            /\ hist' = [hist EXCEPT ![Item] = @ + 1]
            /\ cy' = [cy EXCEPT !.pc = "persist",
                                !.resp = ExtId(Item, hist[Item] + 1)]
            /\ UNCHANGED store
       ELSE /\ cy' = Advance(TRUE, Fact("fail", "none", "none"))
            /\ UNCHANGED hist
            /\ IF TransportFailureWrites
               THEN store' = [store EXCEPT ![Item].status = "failed"]
               ELSE UNCHANGED store
    /\ UNCHANGED <<svars, shut, nw, cacheOn, batchArg, batchSize>>

\* sendMessage: s.messageService.SetSent (GetByID, then Save of the row with
\* status, MessageID and SentAt set) and its error branch
SetSent(ok) ==
    /\ cy.pc = "persist"
    /\ IF ok
       THEN /\ store' = [store EXCEPT ![PersistedRow(cy.batch, cy.i)] =
                                                [status |-> "sent",
                                                 messageID |-> PersistedId(cy.resp),
                                                 sentAt |-> TRUE]]
            /\ cy' = IF CacheGuard THEN [cy EXCEPT !.pc = "cache"]
                     ELSE Advance(FALSE, Fact("ok", "ok", "none"))
       ELSE /\ cy' = Advance(TRUE, Fact("ok", "fail", "none"))
            /\ UNCHANGED store
    /\ UNCHANGED <<svars, shut, nw, hist, cacheOn, batchArg, batchSize>>

\* sendMessage: s.cacheRepo.CacheSentMessage, whose error is only logged
CacheWrite(ok) ==
    /\ cy.pc = "cache"
    /\ cy' = Advance(CacheFailureIsError /\ ~ok,
                     Fact("ok", "ok", IF ok THEN "ok" ELSE "fail"))
    /\ UNCHANGED <<svars, shut, nw, store, hist, cacheOn, batchArg, batchSize>>

DNext ==
    \/ Create
    \/ \E m \in Msgs, status \in {"pending", "sent"} : Update(m, status)
    \/ \E ok \in BOOLEAN : Fetch(ok)
    \/ \E ok \in BOOLEAN : Transport(ok)
    \/ \E ok \in BOOLEAN : SetSent(ok)
    \/ \E ok \in BOOLEAN : CacheWrite(ok)

DSpec == DInit /\ [][DNext]_vars

\* the message whose delivery is followed: the youngest
Followed == MaxMsgs

\* the scheduler keeps running (cycles keep starting and their fetch
\* succeeds), every call of a cycle returns, and the transport and the store
\* do not fail for the followed message every time it is dispatched
DFairSpec ==
    /\ DInit
    /\ [][DNext]_vars
    /\ WF_vars(Fetch(TRUE))
    /\ WF_vars(\E ok \in BOOLEAN : Transport(ok))
    /\ WF_vars(\E ok \in BOOLEAN : SetSent(ok))
    /\ WF_vars(\E ok \in BOOLEAN : CacheWrite(ok))
    /\ SF_vars(Transport(TRUE) /\ Item = Followed)
    /\ SF_vars(SetSent(TRUE) /\ Item = Followed)

DTypeOK ==
    /\ \A m \in Msgs : /\ store[m].status \in {"none", "pending", "sent", "failed"}
                       /\ hist[m] \in 0..MaxDeliver
    /\ cy.pc \in {"idle", "send", "persist", "cache"}
    /\ cy.nerr \in 0..batchSize
    /\ Len(cy.batch) <= batchSize
    /\ cy.ret \in {"none", "nil", "ListFailed", "SendFailed"}

\* ------------------------------------------------------------ observations
\* the fact sendMessage's return adds for the item of this step, if any
Returned   == Len(cy'.facts) = Len(cy.facts) + 1
NewFact    == cy'.facts[Len(cy'.facts)]
PendingRow == [NoRow EXCEPT !.status = "pending"]

\* ------------------------------------------------------------------ claims

\* C12: when the transport call for an item fails, the cycle writes nothing
\* to the store for it (no SetSent, no mark-as-failed): a row that was Pending
\* with no external id and no sent time is still so, and the pending fetch
\* still selects it.
C12_TransportFailureWritesNothing ==
    [][ (cy.pc = "send" /\ Returned /\ NewFact.tr = "fail")
          => /\ store' = store
             /\ store[Item] = PendingRow
                   => /\ store'[Item] = PendingRow
                      /\ FetchFilter(store'[Item])
                      /\ (\E k \in 1..Len(PendingBatch(store)) : PendingBatch(store)[k] = Item)
                            => \E k \in 1..Len(PendingBatch(store')) :
                                   PendingBatch(store')[k] = Item ]_vars

\* a cycle has returned in which the transport failed for an item: its row is
\* Pending, the transport never accepted it, and it heads the next batch
C12_Witness ==
    /\ cy.pc = "idle"
    /\ cy.ret = "SendFailed"
    /\ \E k \in 1..Len(cy.facts) :
          /\ cy.facts[k].tr = "fail"
          /\ store[cy.batch[k]] = PendingRow
          /\ hist[cy.batch[k]] = 0
          /\ PendingBatch(store)[1] = cy.batch[k]

\* an item of the last cycle failed: its transport call or its SetSent did
ItemFailed(f) == f.tr = "fail" \/ f.st = "fail"

\* C13: a cycle over a non-empty batch returns MessageSendFailed exactly when
\* every item of the batch failed (in the transport call or in SetSent), and
\* nil when at least one item succeeded.
C13_SendFailedIffAllFailed ==
    (cy.pc = "idle" /\ Len(cy.batch) > 0)
       => /\ Len(cy.facts) = Len(cy.batch)
          /\ cy.ret \in {"SendFailed", "nil"}
          /\ cy.ret = "SendFailed" <=> \A k \in 1..Len(cy.facts) : ItemFailed(cy.facts[k])
          /\ cy.ret = "nil" <=> \E k \in 1..Len(cy.facts) : ~ItemFailed(cy.facts[k])

\* a cycle over two items returned nil: one item failed in the transport, the
\* other was sent and persisted
C13_Witness ==
    /\ cy.pc = "idle"
    /\ Len(cy.batch) = 2
    /\ cy.ret = "nil"
    /\ ItemFailed(cy.facts[1])
    /\ ~ItemFailed(cy.facts[2])

\* this step is a SetSent of the dispatcher that returned no error
Persisted ==
    /\ cy.pc = "persist"
    /\ \/ cy'.pc = "cache"
       \/ Returned /\ NewFact.st = "ok"

\* C14: when the transport call for an item succeeds and the store write
\* succeeds, the item's row is persisted as Sent, with the external id the
\* transport returned for that same item and with a non-null sent time.
C14_SuccessPersistsSent ==
    [][ Persisted
          => /\ cy.resp # NoId
             /\ cy.resp.of = Item
             /\ store'[Item] = [status |-> "sent", messageID |-> cy.resp,
                                sentAt |-> TRUE]
             /\ \A m \in Msgs \ {Item} : store'[m] = store[m] ]_vars

\* a cycle has returned whose first item was accepted and persisted: the row
\* is Sent and carries the id of that item's delivery
C14_Witness ==
    /\ cy.pc = "idle"
    /\ Len(cy.facts) >= 1
    /\ cy.facts[1].tr = "ok" /\ cy.facts[1].st = "ok"
    /\ store[cy.batch[1]].status = "sent"
    /\ store[cy.batch[1]].messageID = ExtId(cy.batch[1], hist[cy.batch[1]])
    /\ store[cy.batch[1]].sentAt

\* C15: within one process, across any sequence of dispatch cycles, the
\* transport accepts no message more than once.
C15_DeliveredAtMostOnce ==
    \A m \in Msgs : hist[m] <= 1

\* C16: in every reachable state of the store a row has an external id and a
\* sent time exactly when its status is Sent.
C16_IdAndSentAtIffSent ==
    \A m \in Msgs :
        store[m].status # "none"
           => ((store[m].messageID # NoId /\ store[m].sentAt)
                  <=> store[m].status = "sent")

\* C17: a row's status becomes Sent only in a SetSent of the dispatcher that
\* follows a successful transport call for that row, and a row that is Sent
\* never becomes Pending again.
C17_SentOnlyByDispatcherAndFinal ==
    [][ \A m \in Msgs :
          /\ (store[m].status # "sent" /\ store'[m].status = "sent")
                => (Persisted /\ Item = m)
          /\ store[m].status = "sent" => store'[m].status # "pending" ]_vars

\* C18: a cache-write failure for an item whose transport call and SetSent
\* succeeded leaves the item a success (no error is appended for it) and the
\* cycle continues, and returns, exactly as after a successful cache write.
C18_CacheFailureChangesNothing ==
    [][ (cy.pc = "cache" /\ Returned /\ NewFact.ca = "fail")
          => /\ ~ItemFailed(NewFact)
             /\ cy'.nerr = cy.nerr
             /\ [cy' EXCEPT !.facts = Append(cy.facts, Fact("ok", "ok", "ok"))]
                   = Advance(FALSE, Fact("ok", "ok", "ok"))
             /\ cy'.pc = "idle" => cy'.ret = "nil"
             /\ store' = store ]_vars

\* a cycle over one item returned nil although the cache write for the item,
\* which is persisted as Sent, failed
C18_Witness ==
    /\ cacheOn
    /\ cy.pc = "idle"
    /\ Len(cy.batch) = 1
    /\ cy.facts[1] = Fact("ok", "ok", "fail")
    /\ cy.ret = "nil"
    /\ store[cy.batch[1]].status = "sent"

\* this step is the fetch of a new cycle (a fetch that repeats the answer and
\* the return of the cycle before it changes nothing at all)
Fetched == cy.pc = "idle" /\ cy' # cy

\* C19: a cycle whose fetch finds no pending row returns nil, and makes no
\* transport call, no store write and no cache write.
C19_NoPendingNoEffect ==
    [][ (Fetched /\ cy'.list = "ok" /\ \A m \in Msgs : store[m].status # "pending")
          => /\ cy'.pc = "idle"
             /\ cy'.ret = "nil"
             /\ cy'.batch = << >>
             /\ cy'.facts = << >>
             /\ store' = store
             /\ hist' = hist ]_vars

\* a cycle returned nil without an item although the table holds a row: the
\* row is Sent, none is Pending
C19_Witness ==
    /\ cy = [Idle EXCEPT !.list = "ok", !.ret = "nil"]
    /\ \E m \in Msgs : store[m].status = "sent"
    /\ \A m \in Msgs : store[m].status # "pending"

\* C20: a cycle whose pending fetch returns an error returns the
\* listing-failure error, and makes no transport call and no store write.
C20_ListErrorReturned ==
    [][ (Fetched /\ cy'.list = "err")
          => /\ cy'.pc = "idle"
             /\ cy'.ret = "ListFailed"
             /\ cy'.batch = << >>
             /\ cy'.facts = << >>
             /\ store' = store
             /\ hist' = hist ]_vars

\* a cycle returned the listing failure while a row was Pending, and the row
\* is untouched
C20_Witness ==
    /\ cy = [Idle EXCEPT !.list = "err", !.ret = "ListFailed"]
    /\ store[1] = PendingRow
    /\ hist[1] = 0

\* transport calls the cycle under way (or, when idle, the last one) has made
Calls == Len(cy.facts) + (IF cy.pc \in {"persist", "cache"} THEN 1 ELSE 0)

\* C21: every cycle requests at most batchSize items and makes at most
\* batchSize transport calls, where batchSize is the constructor's argument
\* when that is positive and 2 when it is zero or negative.
C21_BatchSizeBoundsCycle ==
    /\ batchSize = (IF batchArg > 0 THEN batchArg ELSE 2)
    /\ Len(cy.batch) <= batchSize
    /\ Calls <= batchSize

\* a service constructed with a non-positive batch size has run a cycle over
\* a table of three Pending rows: two transport calls, the third row not
\* fetched
C21_Witness ==
    /\ batchArg <= 0
    /\ cy.pc = "idle"
    /\ cy.batch = <<1, 2>>
    /\ Calls = 2
    /\ store[3] = PendingRow
    /\ hist[1] + hist[2] = 1

\* C22: in one cycle every fetched item receives exactly one transport call,
\* in fetch order, whatever the outcome of the items before it: a transport
\* call is for the first item that has had none, the item after one that
\* returned (with or without error) is called next, and the cycle returns
\* only when every item has returned.
C22_EachItemCalledOnceInOrder ==
    [][ /\ (cy.pc = "send" /\ cy' # cy)
             => /\ cy.i = Len(cy.facts) + 1
                /\ cy.i <= Len(cy.batch)
                /\ cy'.batch = cy.batch
        /\ Returned
             => /\ cy'.batch = cy.batch
                /\ IF Len(cy'.facts) < Len(cy.batch)
                   THEN cy'.pc = "send" /\ cy'.i = cy.i + 1
                   ELSE cy'.pc = "idle"
        /\ (cy.pc # "idle" /\ cy'.pc = "idle")
             => Len(cy'.facts) = Len(cy'.batch) ]_vars

\* a cycle over two items has returned: SetSent failed for the first, and the
\* second was called after it and persisted
C22_Witness ==
    /\ cy.pc = "idle"
    /\ cy.batch = <<1, 2>>
    /\ cy.facts[1] = Fact("ok", "fail", "none")
    /\ cy.facts[2].tr = "ok" /\ cy.facts[2].st = "ok"
    /\ hist = [m \in Msgs |-> IF m \in {1, 2} THEN 1 ELSE 0]

\* C23: a cache write is attempted for an item only when caching is enabled
\* with a cache repository configured and the item's transport call and
\* SetSent both succeeded; with caching off, or after a transport or SetSent
\* failure, there is no cache write.
C23_CacheWriteOnlyAfterSuccess ==
    /\ cy.pc = "cache"
          => /\ cacheOn
             /\ cy.resp # NoId
             /\ hist[Item] >= 1
    /\ \A k \in 1..Len(cy.facts) :
          /\ cy.facts[k].ca # "none"
                => cacheOn /\ cy.facts[k].tr = "ok" /\ cy.facts[k].st = "ok"
          /\ (~cacheOn \/ ItemFailed(cy.facts[k])) => cy.facts[k].ca = "none"

\* with caching off a cycle over one item has sent and persisted it without
\* a cache write
C23_Witness ==
    /\ ~cacheOn
    /\ cy.pc = "idle"
    /\ cy.batch = <<1>>
    /\ cy.facts = <<Fact("ok", "ok", "none")>>
    /\ store[1].status = "sent"

\* tickers whose channel holds a tick
PendingTicks == {e \in Epochs : ep[e].tkPending}

\* C24: within one loop invocations are sequential, and the ticks that fire
\* while an invocation executes cause at most one invocation after it: a
\* loop starts an invocation for a tick only from its select, the ticker's
\* channel holds at most one tick, and the invocation takes that tick away.
C24_TicksCoalesce ==
    [][ TotalTicks(ep', MaxLoops) = TotalTicks(ep, MaxLoops) + 1
          => \E e \in Epochs :
                /\ ep[e].pc = "select" /\ ep'[e].pc = "job"
                /\ ep'[e].inv = ep[e].inv + 1
                /\ ep[e].tk \in PendingTicks
                /\ PendingTicks' = PendingTicks \ {ep[e].tk}
                /\ \A o \in Epochs \ {e} : ep'[o].pc = ep[o].pc /\ ep'[o].inv = ep[o].inv ]_vars

\* a loop is in the invocation its first tick caused, and its ticker has
\* fired again meanwhile
C24_Witness ==
    /\ ep[Cur].pc = "job"
    /\ ep[Cur].ticks = 1
    /\ ep[Cur].tk = Cur
    /\ ep[Cur].tkPending
    /\ ~ENABLED Tick(Cur)

\* C25: once Stop has cancelled a loop's context, the loop exits, provided
\* its invocation in flight returns (unless the process dies of a panic
\* first); until then it stays cancelled, and when it exits it closes the
\* completion channel it has bound.
C25_CancelledLoopExits ==
    /\ (Watched # {}) ~> (Watched = {} \/ panicked)
    /\ [](Watched \subseteq Cancelled)
    /\ [][ (Watched # {} /\ Watched' = {})
             => /\ Cardinality(AliveSet') = Cardinality(AliveSet) - 1
                /\ \A e \in Watched :
                      /\ ep[e].pc = "select"
                      /\ ep[e].deferCh = Cur
                            => ep'[Cur].closed = Min2(ep[Cur].closed + 1, 2) ]_vars

\* Stop waits in its select for the loop it has cancelled; the loop, which
\* is followed, has returned from its invocation and is in its select
C25_Witness ==
    /\ mu = "Stop"
    /\ Cur \in Watched
    /\ ep[Cur].pc = "select"
    /\ ep[Cur].inv >= 1
    /\ ep[Cur].deferCh = Cur
    /\ ep[Cur].closed = 0
    /\ ENABLED LoopCancel(Cur)

\* a Stop has returned its caller's cancellation error earlier and the loop
\* it cancelled has exited since: the scheduler says running, no loop is
\* alive and the completion channel is closed
StoppedButRunning ==
    /\ ~panicked
    /\ mu = "free"
    /\ running
    /\ AliveSet = {}
    /\ ep[Cur].closed >= 1

\* loops whose goroutine has not run yet
Launched == {e \in Epochs : ep[e].pc = "launched"}

\* C26: the scheduler stays restartable.  Right after a Stop returned its
\* caller's cancellation error a Stop is still accepted; a Stop that finds
\* the loop exited can return at once, and whenever it returns with its
\* caller's context live it returns nil and leaves the scheduler not
\* running; a Start made then succeeds and launches a fresh loop, which
\* invokes the work function when it runs.
C26_Restartable ==
    /\ []((ev = Ev("Stop", "ctxErr") /\ ~panicked) => (~StopRejects /\ ENABLED StopBegin))
    /\ [](StoppedButRunning => (~StopRejects /\ ENABLED StopBegin))
    /\ []((mu = "Stop" /\ ep[Cur].closed >= 1 /\ ~panicked) => ENABLED StopDone)
    /\ [][ (mu = "Stop" /\ mu' = "free" /\ ~cctxDone)
             => (ev' = Ev("Stop", "nil") /\ ~running') ]_vars
    /\ [][ (ev'.op = "Start" /\ ~running)
             => /\ ev'.res = "nil"
                /\ running'
                /\ ep'[Cur] = Fresh ]_vars
    /\ [](\A e \in Epochs : (ep[e].pc = "launched" /\ ~panicked) => ENABLED RunEnter(e))
    /\ [][ Cardinality(Launched') < Cardinality(Launched)
             => /\ Cardinality(InJob') = Cardinality(InJob) + 1
                /\ TotalInv(ep') = TotalInv(ep) + 1 ]_vars

\* after a Stop that returned its caller's cancellation error the loop has
\* exited; the scheduler still says running, and a Stop can be called
C26_Witness ==
    /\ StoppedButRunning
    /\ ep[Cur].closed = 1
    /\ ENABLED StopBegin
    /\ ~ENABLED StopDone

\* C27: while cycles keep running and the transport accepts the followed
\* message when it is dispatched, the message, once Pending, is eventually
\* marked Sent, whatever happens to the older messages (or the transport has
\* accepted as many messages as it ever will).
C27_PendingEventuallySent ==
    (store[Followed].status = "pending")
       ~> (store[Followed].status = "sent" \/ Delivered(hist, MaxMsgs) >= MaxDeliver)

\* C28: a cycle changes the persisted state only of messages of its batch
\* whose transport call succeeded: in a step of the cycle a row changes only
\* if it is the row of the item under way and the transport has accepted
\* that item in this cycle; every other row keeps its status, external id
\* and sent time.
C28_CycleWritesOnlySentItems ==
    [][ cy' # cy
          => \A m \in Msgs :
                store'[m] # store[m]
                   => /\ cy.pc = "persist"
                      /\ m = Item
                      /\ cy.resp # NoId /\ cy.resp.of = m
                      /\ hist[m] >= 1 ]_vars

\* a cycle over messages 1 and 2 of three has returned: the transport failed
\* for 1 and accepted 2; rows 1 and 3 are as they were created, row 2 is Sent
C28_Witness ==
    /\ cy.pc = "idle"
    /\ cy.batch = <<1, 2>>
    /\ cy.facts[1].tr = "fail"
    /\ cy.facts[2].tr = "ok" /\ cy.facts[2].st = "ok"
    /\ store[1] = PendingRow
    /\ store[2].status = "sent"
    /\ store[3] = PendingRow

\* C29: Container.Close stops the sender job before it closes the Redis and
\* database connections: once they are closed no invocation of the work
\* function (no dispatch cycle) is in flight.
C29_NoCycleAfterClose ==
    shut = "closed" => InJob = {}

\* C30: each loop closes the completion channel of the Start that launched
\* it, once: no completion channel is closed twice (the process does not die
\* of a second close), and no loop has bound the channel of another Start.
C30_OwnChannelClosedOnce ==
    /\ ~panicked
    /\ \A e \in Epochs :
          /\ ep[e].closed <= 1
          /\ (Alive(e) /\ ep[e].deferCh # Nil) => ep[e].deferCh = e
====
